---- MODULE Spec2Model ----
(***************************************************************************)
(* Model of ug.maps: the capped paginated search (search_maps driving the  *)
(* generator maps_paged_results through itertools.chain / islice) and the  *)
(* batch driver acquire_maps_search_results_from_different_locations.      *)
(*                                                                         *)
(* Python values are modelled as records [t |-> type name, v |-> integer]. *)
(* A location is a record [type |-> python type, elems |-> its elements].  *)
(* The remote (googlemaps.Client) is a test double: it numbers the records *)
(* it serves 1, 2, 3, ... in emission order, names the continuation token  *)
(* of its r-th response r, and every call to it is appended to log.        *)
(***************************************************************************)
EXTENDS Integers, Sequences, FiniteSets, TLC

\* ------------------------------------------------------------------ bounds
MaxLocs == 2        \* longest input sequence of location sources
MaxK == 3           \* largest n_results passed to a direct search_maps call
MaxRequests == 3    \* page requests the remote answers within one search

\* --------------------------------------------------------- program constants
DFLT_N_RESULTS == 10
DFLT_SECONDS_BETWEEN_REQUESTS == 2

\* ---------------------------------------------------------- python values
NoToken == 0        \* 'next_page_token' not in response
NoClient == 0       \* gmaps_client not resolved yet
CallerClient == 99  \* a googlemaps.Client instance built by the caller
NoStop == 0 - 1     \* stop_index=None

PyInt(n) == [t |-> "int", v |-> n]
PyFloat(n) == [t |-> "float", v |-> n]
PyNumStr(n) == [t |-> "str_num", v |-> n]     \* a str spelling the number n
PyText(n) == [t |-> "str_text", v |-> n]      \* a str that spells no number
PyNone == [t |-> "NoneType", v |-> 0]

NoneLocation == [type |-> "NoneType", elems |-> <<>>]
NoException == "NoException"

\* float(x) of the builtin: the float, or the exception it raises
float(x) ==
  CASE x.t = "int" -> PyFloat(x.v)
    [] x.t = "float" -> x
    [] x.t = "str_num" -> PyFloat(x.v)
    [] x.t = "str_text" -> [t |-> "ValueError", v |-> 0]
    [] OTHER -> [t |-> "TypeError", v |-> 0]

IsFloat(x) == x.t = "float"

\* center_location values a direct caller passes to search_maps
CenterLocations ==
  { [type |-> "str", elems |-> <<PyText(1)>>],
    [type |-> "tuple", elems |-> <<PyInt(48), PyInt(2)>>],
    [type |-> "list", elems |-> <<PyFloat(48), PyInt(2)>>],
    [type |-> "list", elems |-> <<PyFloat(48), PyNumStr(2)>>],
    [type |-> "tuple", elems |-> <<PyText(7), PyInt(2)>>],
    [type |-> "list", elems |-> <<PyInt(48), PyNone>>],
    [type |-> "tuple", elems |-> <<PyInt(48), PyInt(2), PyInt(0)>>],
    [type |-> "dict", elems |-> <<>>] }

\* what gmaps_client.geocode may answer: a list of candidates
GeocodeResponses ==
  { <<>>,
    << [lat |-> PyFloat(43), lng |-> PyFloat(5)] >>,
    << [lat |-> PyFloat(48), lng |-> PyFloat(2)],
       [lat |-> PyFloat(43), lng |-> PyFloat(5)] >> }

\* sizes of the 'results' list of one response, for a search capped at k
PageSizes(k) == {x \in {0, k \div 2, (k + 1) \div 2, k + 1} : x >= 0}

\* the page the remote serves after having served n records
Page(n, size) == [j \in 1..size |-> n + j]

Min(a, b) == IF a <= b THEN a ELSE b

\* ----------------------------------------------------------------- state
VARIABLES
  \* search_maps / maps_paged_results frame
  spc,               \* position in search_maps
  center_location,   \* argument
  n_results,         \* argument
  client_spec,       \* argument gmaps_client as passed: [isClient, h]
  gmaps_client,      \* the resolved client handle
  geocode_result,    \* candidates answered by geocode
  location_coords,   \* <<lat, lon>> once resolved
  gpc,               \* position of the generator maps_paged_results
  next_page_token,   \* response['next_page_token'] of the last response
  buf,               \* records of the current page not yet taken by chain
  results,           \* records taken by islice so far
  exc,               \* exception in flight
  \* the remote and what it observed
  nserved,           \* records served during the current search
  nreq,              \* page requests made during the current search
  pages,             \* pages served during the current search, in order
  tokens,            \* per answered request: the token of its response
  log,               \* calls observed during the current search
  nclients,          \* Client objects constructed so far
  handles,           \* client handles that received a request so far
  \* batch driver frame
  bpc,               \* position in the batch driver
  locations,         \* argument: the input sequence of location sources
  start_index, stop_index, raise_on_error,
  get_key_given,     \* whether get_key was passed
  cnt,               \* sources pulled from the input by islice
  i,                 \* index given by enumerate
  location_src, location, key,
  errors,            \* ErrorRecords yielded so far
  writes,            \* calls save_result(key, r) that completed
  progress,          \* progress lines printed
  failed_at,         \* the step of the try block that raised
  fetched,           \* pages the failed element's search had been answered
  outcome            \* per processed element: how its processing ended

argVars == <<center_location, n_results, client_spec>>
remoteVars == <<nserved, nreq, pages, tokens, log, handles>>
searchVars == <<spc, argVars, gmaps_client, geocode_result, location_coords,
                gpc, next_page_token, buf, results, remoteVars, nclients>>
inputVars == <<locations, start_index, stop_index, raise_on_error, get_key_given>>
batchVars == <<bpc, inputVars, cnt, i, location_src, location, key, errors,
               writes, progress, failed_at, fetched, outcome>>
vars == <<searchVars, exc, batchVars>>

\* ------------------------------------------------------------ util.py
\* faulty variant: one Client built once and shared by every call
ensure_gmaps_client_shared(spec, built) ==
  IF spec.isClient THEN spec.h ELSE 1

ensure_gmaps_client(spec, built) ==
  IF spec.isClient THEN spec.h ELSE built + 1

DefaultClientSpec == [isClient |-> FALSE, h |-> NoClient]

\* ---------------------------------------------------- observed remote calls
GeocodeCall(client, query, ok) ==
  [op |-> "geocode", client |-> client, page_token |-> NoToken,
   arg |-> query, secs |-> 0, ok |-> ok]
PlacesCall(client, coords, token, ok) ==
  [op |-> "places", client |-> client, page_token |-> token,
   arg |-> coords, secs |-> 0, ok |-> ok]
SleepCall(seconds) ==
  [op |-> "sleep", client |-> NoClient, page_token |-> NoToken,
   arg |-> <<>>, secs |-> seconds, ok |-> TRUE]

\* ------------------------------------------------------------ search_maps
\* the frame of a fresh call search_maps(query, loc, gmaps_client=spec, n_results=k)
CallSearch(loc, k, spec) ==
  /\ spc' = "ensure_client"
  /\ center_location' = loc
  /\ n_results' = k
  /\ client_spec' = spec
  /\ gmaps_client' = NoClient
  /\ geocode_result' = <<>>
  /\ location_coords' = <<>>
  /\ gpc' = "unstarted"
  /\ next_page_token' = NoToken
  /\ buf' = <<>>
  /\ results' = <<>>
  /\ nserved' = 0
  /\ nreq' = 0
  /\ pages' = <<>>
  /\ tokens' = <<>>
  /\ log' = <<>>

SearchRaises(e) ==
  /\ spc' = "raised"
  /\ exc' = e

EnsureClient ==
  /\ spc = "ensure_client"
  /\ gmaps_client' = ensure_gmaps_client(client_spec, nclients)
  /\ nclients' = IF client_spec.isClient THEN nclients ELSE nclients + 1
  /\ spc' = "resolve"
  /\ UNCHANGED <<argVars, geocode_result, location_coords, gpc, next_page_token,
                 buf, results, remoteVars, exc, batchVars>>

\* faulty variant: an empty geocode answer is not checked, the search goes on
GeocodeCenterUnchecked ==
  /\ spc = "resolve"
  /\ center_location.type = "str"
  /\ handles' = handles \cup {gmaps_client}
  /\ \E answer \in GeocodeResponses :
       /\ log' = Append(log, GeocodeCall(gmaps_client, center_location.elems, TRUE))
       /\ geocode_result' = answer
       /\ location_coords' = IF answer # <<>>
                             THEN <<answer[1].lat, answer[1].lng>>
                             ELSE <<>>
       /\ spc' = "islice"
  /\ UNCHANGED <<argVars, gmaps_client, gpc, next_page_token, buf, results,
                 nserved, nreq, pages, tokens, nclients, exc, batchVars>>

\* isinstance(center_location, str): geocode it
GeocodeCenter ==
  /\ spc = "resolve"
  /\ center_location.type = "str"
  /\ handles' = handles \cup {gmaps_client}
  /\ \/ /\ log' = Append(log, GeocodeCall(gmaps_client, center_location.elems, FALSE))
        /\ SearchRaises("RemoteRequestFailure")
        /\ UNCHANGED <<geocode_result, location_coords>>
     \/ \E answer \in GeocodeResponses :
          /\ log' = Append(log, GeocodeCall(gmaps_client, center_location.elems, TRUE))
          /\ geocode_result' = answer
          /\ IF answer # <<>>
             THEN /\ location_coords' = <<answer[1].lat, answer[1].lng>>
                  /\ spc' = "islice"
                  /\ UNCHANGED exc
             ELSE /\ SearchRaises("ValueError")
                  /\ UNCHANGED location_coords
  /\ UNCHANGED <<argVars, gmaps_client, gpc, next_page_token, buf, results,
                 nserved, nreq, pages, tokens, nclients, batchVars>>

\* faulty variant: the two elements are passed on as given, without float()
UseCoordinatesRaw ==
  /\ spc = "resolve"
  /\ center_location.type \in {"tuple", "list"}
  /\ Len(center_location.elems) = 2
  /\ location_coords' = <<center_location.elems[1], center_location.elems[2]>>
  /\ spc' = "islice"
  /\ UNCHANGED <<argVars, gmaps_client, geocode_result, gpc, next_page_token,
                 buf, results, remoteVars, nclients, exc, batchVars>>

\* a tuple or list of length 2: convert both elements with float()
UseCoordinates ==
  /\ spc = "resolve"
  /\ center_location.type \in {"tuple", "list"}
  /\ Len(center_location.elems) = 2
  /\ LET lat == float(center_location.elems[1])
         lon == float(center_location.elems[2])
     IN IF IsFloat(lat) /\ IsFloat(lon)
        THEN /\ location_coords' = <<lat, lon>>
             /\ spc' = "islice"
             /\ UNCHANGED exc
        ELSE /\ SearchRaises("ValueError")
             /\ UNCHANGED location_coords
  /\ UNCHANGED <<argVars, gmaps_client, geocode_result, gpc, next_page_token,
                 buf, results, remoteVars, nclients, batchVars>>

\* any other center_location
RejectLocation ==
  /\ spc = "resolve"
  /\ center_location.type # "str"
  /\ ~(center_location.type \in {"tuple", "list"} /\ Len(center_location.elems) = 2)
  /\ SearchRaises("TypeError")
  /\ UNCHANGED <<argVars, gmaps_client, geocode_result, location_coords, gpc,
                 next_page_token, buf, results, remoteVars, nclients, batchVars>>

\* --------------------------------------------------- maps_paged_results
\* faulty variant: a request that fails is taken for an empty last page
PlacesRequestSuppressing(token) ==
  /\ nreq < MaxRequests
  /\ handles' = handles \cup {gmaps_client}
  /\ nreq' = nreq + 1
  /\ \/ /\ log' = Append(log, PlacesCall(gmaps_client, location_coords, token, FALSE))
        /\ buf' = <<>>
        /\ pages' = Append(pages, <<>>)
        /\ next_page_token' = NoToken
        /\ tokens' = Append(tokens, NoToken)
        /\ gpc' = "yielded"
        /\ UNCHANGED <<spc, exc, nserved>>
     \/ \E size \in PageSizes(n_results), more \in BOOLEAN :
          /\ log' = Append(log, PlacesCall(gmaps_client, location_coords, token, TRUE))
          /\ buf' = Page(nserved, size)
          /\ pages' = Append(pages, Page(nserved, size))
          /\ nserved' = nserved + size
          /\ next_page_token' = IF more THEN nreq + 1 ELSE NoToken
          /\ tokens' = Append(tokens, IF more THEN nreq + 1 ELSE NoToken)
          /\ gpc' = "yielded"
          /\ UNCHANGED <<spc, exc>>

\* gmaps_client.places(...) answers with a page and maybe a token, or raises
PlacesRequest(token) ==
  /\ nreq < MaxRequests
  /\ handles' = handles \cup {gmaps_client}
  /\ nreq' = nreq + 1
  /\ \/ /\ log' = Append(log, PlacesCall(gmaps_client, location_coords, token, FALSE))
        /\ SearchRaises("RemoteRequestFailure")
        /\ gpc' = "raised"
        /\ UNCHANGED <<next_page_token, buf, nserved, pages, tokens>>
     \/ \E size \in PageSizes(n_results), more \in BOOLEAN :
          /\ log' = Append(log, PlacesCall(gmaps_client, location_coords, token, TRUE))
          /\ buf' = Page(nserved, size)
          /\ pages' = Append(pages, Page(nserved, size))
          /\ nserved' = nserved + size
          /\ next_page_token' = IF more THEN nreq + 1 ELSE NoToken
          /\ tokens' = Append(tokens, IF more THEN nreq + 1 ELSE NoToken)
          /\ gpc' = "yielded"
          /\ UNCHANGED <<spc, exc>>

\* islice has its n_results records: list() ends, the generator is dropped
IsliceDone == Len(results) = n_results

\* faulty variant: the cursor is driven on although islice has its records
NeedsPageEager == buf = <<>>

\* chain needs a page: islice wants a record and the current page is used up
NeedsPage == ~IsliceDone /\ buf = <<>>

\* faulty variant: the initial request is made before islice asks for a record
FirstRequestEager ==
  /\ spc = "islice"
  /\ gpc = "unstarted"
  /\ PlacesRequest(NoToken)
  /\ UNCHANGED <<argVars, gmaps_client, geocode_result, location_coords,
                 results, nclients, batchVars>>

\* first next() on the generator: the initial request
FirstRequest ==
  /\ spc = "islice"
  /\ NeedsPage
  /\ gpc = "unstarted"
  /\ PlacesRequest(NoToken)
  /\ UNCHANGED <<argVars, gmaps_client, geocode_result, location_coords,
                 results, nclients, batchVars>>

\* faulty variant: the continuation request is made without the delay
SleepSkipped ==
  /\ spc = "islice"
  /\ ~IsliceDone /\ buf = <<>>
  /\ gpc = "yielded"
  /\ next_page_token # NoToken
  /\ gpc' = "slept"
  /\ UNCHANGED <<spc, argVars, gmaps_client, geocode_result, location_coords,
                 next_page_token, buf, results, remoteVars, nclients, exc,
                 batchVars>>

\* resumed with a token in the last response: time.sleep(...)
Sleep ==
  /\ spc = "islice"
  /\ NeedsPage
  /\ gpc = "yielded"
  /\ next_page_token # NoToken
  /\ log' = Append(log, SleepCall(DFLT_SECONDS_BETWEEN_REQUESTS))
  /\ gpc' = "slept"
  /\ UNCHANGED <<spc, argVars, gmaps_client, geocode_result, location_coords,
                 next_page_token, buf, results, nserved, nreq, pages, tokens,
                 handles,
                 nclients, exc, batchVars>>

\* faulty variant: the continuation request carries no token
NextRequestFromStart ==
  /\ spc = "islice"
  /\ gpc = "slept"
  /\ PlacesRequest(NoToken)
  /\ UNCHANGED <<argVars, gmaps_client, geocode_result, location_coords,
                 results, nclients, batchVars>>

\* ... then the continuation request with the token of the last response
NextRequest ==
  /\ spc = "islice"
  /\ gpc = "slept"
  /\ PlacesRequest(next_page_token)
  /\ UNCHANGED <<argVars, gmaps_client, geocode_result, location_coords,
                 results, nclients, batchVars>>

\* faulty variant: the cap is applied to whole pages only
TakeRecordsWholePage ==
  /\ spc = "islice"
  /\ Len(results) < n_results
  /\ buf # <<>>
  /\ results' = results \o buf
  /\ buf' = <<>>
  /\ UNCHANGED <<spc, argVars, gmaps_client, geocode_result, location_coords,
                 gpc, next_page_token, remoteVars, nclients, exc, batchVars>>

\* islice takes records of the current page, in order, until it has
\* n_results of them or the page is used up
TakeRecords ==
  /\ spc = "islice"
  /\ ~IsliceDone
  /\ buf # <<>>
  /\ LET n == Min(Len(buf), n_results - Len(results))
     IN /\ results' = results \o SubSeq(buf, 1, n)
        /\ buf' = SubSeq(buf, n + 1, Len(buf))
  /\ UNCHANGED <<spc, argVars, gmaps_client, geocode_result, location_coords,
                 gpc, next_page_token, remoteVars, nclients, exc, batchVars>>

\* islice reached n_results: search_maps returns, the cursor is abandoned
ReturnCapped ==
  /\ spc = "islice"
  /\ IsliceDone
  /\ spc' = "returned"
  /\ UNCHANGED <<argVars, gmaps_client, geocode_result, location_coords, gpc,
                 next_page_token, buf, results, remoteVars, nclients, exc,
                 batchVars>>

\* faulty variant: an empty page ends the generator whatever its token
ReturnOnEmptyPage ==
  /\ spc = "islice"
  /\ NeedsPage
  /\ gpc = "yielded"
  /\ gpc' = "finished"
  /\ spc' = "returned"
  /\ UNCHANGED <<argVars, gmaps_client, geocode_result, location_coords,
                 next_page_token, buf, results, remoteVars, nclients, exc,
                 batchVars>>

\* resumed without a token: the generator ends, so do chain, islice and list
ReturnExhausted ==
  /\ spc = "islice"
  /\ NeedsPage
  /\ gpc = "yielded"
  /\ next_page_token = NoToken
  /\ gpc' = "finished"
  /\ spc' = "returned"
  /\ UNCHANGED <<argVars, gmaps_client, geocode_result, location_coords,
                 next_page_token, buf, results, remoteVars, nclients, exc,
                 batchVars>>

NextSearch ==
  \/ EnsureClient
  \/ GeocodeCenter
  \/ UseCoordinates
  \/ RejectLocation
  \/ FirstRequest
  \/ Sleep
  \/ NextRequest
  \/ TakeRecords
  \/ ReturnCapped
  \/ ReturnExhausted

\* ------------------------------------------------- a direct search_maps call
IdleBatch ==
  /\ bpc = "direct"
  /\ locations = <<>>
  /\ start_index = 0
  /\ stop_index = NoStop
  /\ raise_on_error = TRUE
  /\ get_key_given = FALSE
  /\ cnt = 0
  /\ i = 0 - 1
  /\ location_src = 0
  /\ location = NoneLocation
  /\ key = NoneLocation
  /\ errors = <<>>
  /\ writes = <<>>
  /\ progress = <<>>
  /\ failed_at = "none"
  /\ fetched = 0
  /\ outcome = <<>>

IdleSearch ==
  /\ center_location = NoneLocation
  /\ n_results = DFLT_N_RESULTS
  /\ client_spec = DefaultClientSpec
  /\ gmaps_client = NoClient
  /\ geocode_result = <<>>
  /\ location_coords = <<>>
  /\ gpc = "unstarted"
  /\ next_page_token = NoToken
  /\ buf = <<>>
  /\ results = <<>>
  /\ exc = NoException
  /\ nserved = 0
  /\ nreq = 0
  /\ pages = <<>>
  /\ tokens = <<>>
  /\ log = <<>>
  /\ nclients = 0
  /\ handles = {}

InitSearch ==
  /\ IdleBatch
  /\ spc = "ensure_client"
  /\ center_location \in CenterLocations
  /\ n_results \in 0..MaxK
  /\ client_spec \in {DefaultClientSpec, [isClient |-> TRUE, h |-> CallerClient]}
  /\ gmaps_client = NoClient
  /\ geocode_result = <<>>
  /\ location_coords = <<>>
  /\ gpc = "unstarted"
  /\ next_page_token = NoToken
  /\ buf = <<>>
  /\ results = <<>>
  /\ exc = NoException
  /\ nserved = 0
  /\ nreq = 0
  /\ pages = <<>>
  /\ tokens = <<>>
  /\ log = <<>>
  /\ nclients = 0
  /\ handles = {}

SpecSearch == InitSearch /\ [][NextSearch]_vars

\* the thread keeps running: a step that can be taken is taken
FairSpecSearch == SpecSearch /\ WF_vars(NextSearch)

\* ------------------------ acquire_maps_search_results_from_different_locations
SEARCH_QUERY == "q"

\* the input: the source at 0-based position p is named p
Sources(n) == [p \in 1..n |-> p - 1]

\* what the caller's get_location may return for a source
LocKinds == {"str", "tuple", "dict"}
LocationOf(src, kind) ==
  CASE kind = "str" -> [type |-> "str", elems |-> <<PyText(src)>>]
    [] kind = "tuple" -> [type |-> "tuple", elems |-> <<PyInt(40 + src), PyInt(src)>>]
    [] OTHER -> [type |-> "dict", elems |-> <<PyText(src)>>]

\* what the caller's get_key returns for a source
KeyOf(src) == [type |-> "key", elems |-> <<PyText(src)>>]

\* faulty variant: the index stands in for the key when get_key is not passed
get_key_by_index(src, loc) ==
  IF get_key_given THEN KeyOf(src) ELSE [type |-> "int", elems |-> <<PyInt(src)>>]

\* get_key(location_src), with get_key = get_location when none was passed
get_key(src, loc) ==
  IF get_key_given THEN KeyOf(src) ELSE loc

\* save_result(key, r) after ensure_kv_writer: one write(key, value) on the sink
save_result(sink, src, k, r) ==
  Append(sink, [src |-> src, key |-> k, value |-> r])

ErrorRecord(idx, loc, e) ==
  [i |-> idx, search_query |-> SEARCH_QUERY, location |-> loc, e |-> e]

\* the search frame is gone once search_maps has returned or raised
PopSearch ==
  /\ spc' = "idle"
  /\ center_location' = NoneLocation
  /\ n_results' = DFLT_N_RESULTS
  /\ client_spec' = DefaultClientSpec
  /\ gmaps_client' = NoClient
  /\ geocode_result' = <<>>
  /\ location_coords' = <<>>
  /\ gpc' = "unstarted"
  /\ next_page_token' = NoToken
  /\ buf' = <<>>
  /\ results' = <<>>
  /\ nserved' = 0
  /\ nreq' = 0
  /\ pages' = <<>>
  /\ tokens' = <<>>
  /\ log' = <<>>

BatchRaises(e, step) ==
  /\ bpc' = "except"
  /\ exc' = e
  /\ failed_at' = step
  /\ fetched' = Len(pages)

\* how the processing of the current element ended; for one that failed,
\* the pages its search had been answered before
Outcome(step) ==
  [pos |-> cnt - 1, i |-> i, stage |-> step, e |-> exc, ret |-> results,
   fetched |-> IF step = "ok" THEN 0 ELSE fetched,
   loc |-> IF step = "get_location" THEN NoneLocation ELSE location]

\* islice(locations, start_index, stop_index): sources pulled and dropped
\* before the next one can be yielded
SkippedTo == IF cnt < start_index THEN Min(start_index, Len(locations)) ELSE cnt

\* faulty variant: stop_index is not applied
IsliceYieldsNoStop ==
  /\ SkippedTo >= start_index
  /\ SkippedTo < Len(locations)

IsliceYields ==
  /\ SkippedTo >= start_index
  /\ stop_index = NoStop \/ SkippedTo < stop_index
  /\ SkippedTo < Len(locations)

\* the index enumerate gives to the next element
NextIndex == i + 1

\* for i, location_src in enumerate(locations)
PullSource ==
  /\ bpc = "pull"
  /\ IsliceYields
  /\ location_src' = locations[SkippedTo + 1]
  /\ cnt' = SkippedTo + 1
  /\ i' = NextIndex
  /\ bpc' = "get_location"
  /\ UNCHANGED <<searchVars, exc, inputVars, location, key, errors, writes,
                 progress, failed_at, fetched, outcome>>

\* the input is used up: errors = list(...) is complete and is returned
EndOfInput ==
  /\ bpc = "pull"
  /\ ~IsliceYields
  /\ cnt' = SkippedTo
  /\ bpc' = "returned"
  /\ UNCHANGED <<searchVars, exc, inputVars, i, location_src, location, key,
                 errors, writes, progress, failed_at, fetched, outcome>>

\* location = get_location(location_src)
GetLocation ==
  /\ bpc = "get_location"
  /\ \/ /\ BatchRaises("GetLocationError", "get_location")
        /\ UNCHANGED location
     \/ \E kind \in LocKinds :
          /\ location' = LocationOf(location_src, kind)
          /\ bpc' = "get_key"
          /\ UNCHANGED <<exc, failed_at, fetched>>
  /\ UNCHANGED <<searchVars, inputVars, cnt, i, location_src, key, errors,
                 writes, progress, outcome>>

\* key = get_key(location_src), where get_key is get_location when none was
\* passed; then the progress line and the call of search_maps
GetKey ==
  /\ bpc = "get_key"
  /\ \/ /\ BatchRaises(IF get_key_given THEN "GetKeyError" ELSE "GetLocationError",
                       "get_key")
        /\ UNCHANGED <<searchVars, key, progress>>
     \/ /\ key' = get_key(location_src, location)
        /\ progress' = Append(progress, [i |-> i, key |-> key'])
        /\ CallSearch(location, DFLT_N_RESULTS, DefaultClientSpec)
        /\ bpc' = "search"
        /\ UNCHANGED <<nclients, handles, exc, failed_at, fetched>>
  /\ UNCHANGED <<inputVars, cnt, i, location_src, location, errors, writes,
                 outcome>>

\* search_maps raised: the exception reaches the except clause
SearchRaised ==
  /\ bpc = "search"
  /\ spc = "raised"
  /\ PopSearch
  /\ bpc' = "except"
  /\ failed_at' = "search"
  /\ fetched' = Len(pages)
  /\ UNCHANGED <<nclients, handles, exc, inputVars, cnt, i, location_src,
                 location, key, errors, writes, progress, outcome>>

\* r = search_maps(...) returned: save_result(key, r)
SaveResult ==
  /\ bpc = "search"
  /\ spc = "returned"
  /\ PopSearch
  /\ \/ /\ BatchRaises("SinkError", "save")
        /\ UNCHANGED <<writes, outcome>>
     \/ /\ writes' = save_result(writes, location_src, key, results)
        /\ outcome' = Append(outcome, Outcome("ok"))
        /\ bpc' = "pull"
        /\ UNCHANGED <<exc, failed_at, fetched>>
  /\ UNCHANGED <<nclients, handles, inputVars, cnt, i, location_src, location,
                 key, errors, progress>>

\* faulty variant: the first error ends the loop after its ErrorRecord
RecordErrorStops ==
  /\ bpc = "except"
  /\ ~raise_on_error
  /\ errors' = Append(errors, ErrorRecord(i, location, exc))
  /\ outcome' = Append(outcome, Outcome(failed_at))
  /\ bpc' = "returned"
  /\ exc' = NoException
  /\ UNCHANGED <<searchVars, inputVars, cnt, i, location_src, location, key,
                 writes, progress, failed_at, fetched>>

\* except Exception as e, raise_on_error false: yield the ErrorRecord
RecordError ==
  /\ bpc = "except"
  /\ ~raise_on_error
  /\ errors' = Append(errors, ErrorRecord(i, location, exc))
  /\ outcome' = Append(outcome, Outcome(failed_at))
  /\ bpc' = "pull"
  /\ exc' = NoException
  /\ UNCHANGED <<searchVars, inputVars, cnt, i, location_src, location, key,
                 writes, progress, failed_at, fetched>>

\* faulty variant: raise_on_error is ignored, the error is recorded
ReRaiseSwallowed ==
  /\ bpc = "except"
  /\ raise_on_error
  /\ errors' = Append(errors, ErrorRecord(i, location, exc))
  /\ outcome' = Append(outcome, Outcome(failed_at))
  /\ bpc' = "pull"
  /\ exc' = NoException
  /\ UNCHANGED <<searchVars, inputVars, cnt, i, location_src, location, key,
                 writes, progress, failed_at, fetched>>

\* except Exception as e, raise_on_error true: raise
ReRaise ==
  /\ bpc = "except"
  /\ raise_on_error
  /\ outcome' = Append(outcome, Outcome(failed_at))
  /\ bpc' = "raised"
  /\ UNCHANGED <<searchVars, exc, inputVars, cnt, i, location_src, location,
                 key, errors, writes, progress, failed_at, fetched>>

Next ==
  \/ PullSource
  \/ EndOfInput
  \/ GetLocation
  \/ GetKey
  \/ EnsureClient
  \/ GeocodeCenter
  \/ UseCoordinates
  \/ RejectLocation
  \/ FirstRequest
  \/ Sleep
  \/ NextRequest
  \/ TakeRecords
  \/ ReturnCapped
  \/ ReturnExhausted
  \/ SearchRaised
  \/ SaveResult
  \/ RecordError
  \/ ReRaise

Init ==
  /\ bpc = "pull"
  /\ locations \in {Sources(n) : n \in 0..MaxLocs}
  /\ start_index \in 0..MaxLocs
  /\ stop_index \in {NoStop} \cup (0..MaxLocs)
  /\ raise_on_error \in BOOLEAN
  /\ get_key_given \in BOOLEAN
  /\ cnt = 0
  /\ i = 0 - 1
  /\ location_src = 0
  /\ location = NoneLocation
  /\ key = NoneLocation
  /\ errors = <<>>
  /\ writes = <<>>
  /\ progress = <<>>
  /\ failed_at = "none"
  /\ fetched = 0
  /\ outcome = <<>>
  /\ spc = "idle"
  /\ IdleSearch

Spec == Init /\ [][Next]_vars

\* ------------------------------------------------------- helper operators
RECURSIVE Flatten(_)
Flatten(ps) == IF ps = <<>> THEN <<>> ELSE Head(ps) \o Flatten(Tail(ps))

Take(s, n) == SubSeq(s, 1, Min(n, Len(s)))

\* the calls of the page cursor: the places requests and the sleeps
IsCursorCall(c) == c.op # "geocode"
CursorLog == SelectSeq(log, IsCursorCall)
IsPlaces(c) == c.op = "places"
IsSleep(c) == c.op = "sleep"
IsGeocode(c) == c.op = "geocode"
Requests == SelectSeq(log, IsPlaces)
Sleeps == SelectSeq(log, IsSleep)
Geocodes == SelectSeq(log, IsGeocode)

\* the last response carried no token: the remote has served all its pages
RemoteExhausted == gpc \in {"yielded", "finished"} /\ next_page_token = NoToken

IsNumber(x) == x.t \in {"int", "float"}
IsNumericPair(loc) ==
  /\ loc.type \in {"tuple", "list"}
  /\ Len(loc.elems) = 2
  /\ IsNumber(loc.elems[1])
  /\ IsNumber(loc.elems[2])

\* ------------------------------------------------------------------ claims

\* C1: when search_maps returns, its list is the first min(n_results, total)
\* records of the concatenation of the pages in fetch order (total counts
\* the records of all pages up to the first one without a token); a list
\* shorter than n_results is returned only when the remote is exhausted;
\* and what a cap in the middle of a page leaves behind is exactly the rest
\* of that page: nothing else was fetched and nothing else is lost.
C1_CappedPrefix ==
  spc = "returned" =>
    /\ results = Take(Flatten(pages), n_results)
    /\ Len(results) = Min(n_results, Len(Flatten(pages)))
    /\ Len(results) < n_results => RemoteExhausted
    /\ results \o buf = Flatten(pages)

C1_Witness ==
  /\ spc = "returned"
  /\ n_results = 3
  /\ Len(pages) = 2
  /\ Len(pages[1]) = 2
  /\ Len(pages[2]) = 2
  /\ results = <<1, 2, 3>>
  /\ buf = <<4>>

\* every response so far carried a token (or none was asked for yet)
C6_TokenPending ==
  \/ gpc = "unstarted"
  \/ gpc = "yielded" /\ next_page_token # NoToken

C6_Collected == spc = "islice" /\ IsliceDone /\ C6_TokenPending

C6_ReturnedAbandoned ==
  /\ spc = "returned"
  /\ Len(results) = n_results
  /\ C6_TokenPending

\* C6: against a remote whose every response carries a token, once islice
\* holds n_results records no further request or sleep is made, the search
\* returns that list, and the cursor is left suspended, not exhausted.
C6_StopsAtCap ==
  /\ C6_Collected ~> C6_ReturnedAbandoned
  /\ [][C6_Collected => (log' = log /\ nreq' = nreq /\ results' = results)]_vars

C6_Witness ==
  /\ spc = "returned"
  /\ n_results = 3
  /\ Len(results) = 3
  /\ nreq = MaxRequests
  /\ gpc = "yielded"
  /\ next_page_token # NoToken

\* C7: in the calls of the page cursor, the first call is a request, every
\* later request directly follows a sleep of seconds_between_requests, and
\* every sleep directly follows a request that was answered; so, outside
\* the moment between a sleep and its request, sleeps = requests - 1.
C7_SleepBetweenRequests ==
  LET c == CursorLog IN
    /\ c # <<>> => IsPlaces(c[1]) /\ c[1].page_token = NoToken
    /\ \A j \in 2..Len(c) :
         /\ IsPlaces(c[j]) =>
              IsSleep(c[j - 1]) /\ c[j - 1].secs = DFLT_SECONDS_BETWEEN_REQUESTS
         /\ IsSleep(c[j]) => IsPlaces(c[j - 1]) /\ c[j - 1].ok
    /\ Len(Requests) = nreq
    /\ (gpc # "slept" /\ nreq >= 1) => Len(Sleeps) = nreq - 1
    /\ nreq = 0 => Len(Sleeps) = 0

C7_Witness ==
  /\ spc = "returned"
  /\ n_results = 3
  /\ Len(pages) = 2
  /\ Len(pages[1]) = 2
  /\ Len(pages[2]) = 2
  /\ Len(results) = 3
  /\ Len(Requests) = 2
  /\ Len(Sleeps) = 1
  /\ IsSleep(CursorLog[2])

\* C8: for a center_location that is a 2-element tuple or list of numbers,
\* no geocode call is made and every places request carries the two
\* elements converted to float.
C8_NumericPairUsedDirectly ==
  IsNumericPair(center_location) =>
    /\ Geocodes = <<>>
    /\ spc # "raised" \/ exc = "RemoteRequestFailure"
    /\ \A j \in 1..Len(Requests) :
         Requests[j].arg = << PyFloat(center_location.elems[1].v),
                              PyFloat(center_location.elems[2].v) >>

C8_Witness ==
  /\ center_location = [type |-> "tuple", elems |-> <<PyInt(48), PyInt(2)>>]
  /\ Len(Requests) = 2
  /\ spc = "returned"

\* the geocode call of a text center_location answered with no candidates
C9_GeocodeAnsweredEmpty ==
  /\ center_location.type = "str"
  /\ Len(Geocodes) >= 1
  /\ Geocodes[1].ok
  /\ geocode_result = <<>>

\* C9: for a text center_location whose geocode call answered with no
\* candidates, search_maps has raised ValueError after exactly one geocode
\* call and without any places request.
C9_LocationNotFound ==
  C9_GeocodeAnsweredEmpty =>
    /\ spc = "raised"
    /\ exc = "ValueError"
    /\ Len(Geocodes) = 1
    /\ Requests = <<>>
    /\ nreq = 0

C9_Witness ==
  /\ C9_GeocodeAnsweredEmpty
  /\ spc = "raised"
  /\ n_results >= 1

\* ------------------------------------------------------------ batch claims
\* the original positions the slice start_index:stop_index selects
SliceEnd ==
  IF stop_index = NoStop THEN Len(locations) ELSE Min(stop_index, Len(locations))
ExpectedPositions ==
  [j \in 1..(IF SliceEnd > start_index THEN SliceEnd - start_index ELSE 0)
     |-> start_index + j - 1]
ProcessedPositions == [j \in 1..Len(outcome) |-> outcome[j].pos]

Failed(o) == o.stage # "ok"
Succeeded(o) == o.stage = "ok"
FailedOutcomes == SelectSeq(outcome, Failed)
OkOutcomes == SelectSeq(outcome, Succeeded)

\* C2: the elements at original positions start_index..stop_index-1 are
\* processed, in that order, and the index reported for each of them (in
\* its progress line and in the field i of its ErrorRecord) is its original
\* position in the input.
C2_ReportsOriginalPositions ==
  bpc = "returned" =>
    /\ ProcessedPositions = ExpectedPositions
    /\ \A j \in 1..Len(outcome) : outcome[j].i = outcome[j].pos
    /\ \A k \in 1..Len(errors) : errors[k].i = FailedOutcomes[k].pos
    /\ \A k \in 1..Len(progress) :
         \E j \in 1..Len(outcome) :
           outcome[j].i = progress[k].i /\ outcome[j].pos = progress[k].i

\* C3: with raise_on_error false the batch processes every element of the
\* slice; the returned list holds one ErrorRecord per failing element, in
\* input order, with that element's index (its 0-based place among the
\* processed elements, which is its input position when start_index = 0)
\* and its exception; the sink was written for the other elements and for
\* no failing one; ErrorRecords plus sink writes equal the elements processed.
C3_ErrorIsolation ==
  (bpc = "returned" /\ ~raise_on_error) =>
    /\ ProcessedPositions = ExpectedPositions
    /\ Len(errors) = Len(FailedOutcomes)
    /\ \A k \in 1..Len(errors) :
         /\ errors[k].i = FailedOutcomes[k].pos - start_index
         /\ start_index = 0 => errors[k].i = FailedOutcomes[k].pos
         /\ errors[k].e = FailedOutcomes[k].e
         /\ errors[k].e # NoException
    /\ Len(writes) = Len(OkOutcomes)
    /\ \A k \in 1..Len(writes) : writes[k].src = OkOutcomes[k].pos
    /\ Len(errors) + Len(writes) = Len(ExpectedPositions)

C3_Witness ==
  /\ bpc = "returned"
  /\ ~raise_on_error
  /\ start_index = 0
  /\ Len(errors) = 1
  /\ errors[1].i = 0
  /\ outcome[1].stage = "get_location"
  /\ Len(writes) = 1
  /\ writes[1].src = 1

\* the exceptions each step of the try block can raise
ExceptionsOf(step) ==
  CASE step = "get_location" -> {"GetLocationError"}
    [] step = "get_key" -> {IF get_key_given THEN "GetKeyError" ELSE "GetLocationError"}
    [] step = "search" -> {"ValueError", "TypeError", "RemoteRequestFailure"}
    [] step = "save" -> {"SinkError"}
    [] OTHER -> {}

\* C4: with raise_on_error true no ErrorRecord is ever produced; when the
\* call has raised, the exception is the one the failing step raised, the
\* failing element is the last one pulled from the input, every element
\* before it was processed without error and the sink holds exactly their
\* writes; when the call returns, nothing failed and the list is empty.
C4_AbortOnFirstError ==
  raise_on_error =>
    /\ errors = <<>>
    /\ bpc = "raised" =>
         LET n == Len(outcome) IN
           /\ n >= 1
           /\ outcome[n].stage # "ok"
           /\ outcome[n].stage = failed_at
           /\ exc \in ExceptionsOf(failed_at)
           /\ cnt = outcome[n].pos + 1
           /\ \A k \in 1..(n - 1) : outcome[k].stage = "ok"
           /\ \A k \in 1..n : outcome[k].pos = start_index + k - 1
           /\ Len(writes) = n - 1
           /\ \A k \in 1..(n - 1) : writes[k].src = outcome[k].pos
    /\ bpc = "returned" =>
         /\ ProcessedPositions = ExpectedPositions
         /\ \A k \in 1..Len(outcome) : outcome[k].stage = "ok"
         /\ Len(writes) = Len(outcome)

C4_Witness ==
  /\ bpc = "raised"
  /\ raise_on_error
  /\ failed_at = "search"
  /\ Len(writes) = 1
  /\ writes[1].src = 0
  /\ outcome[2].pos = 1

\* C5: the ErrorRecord of an element carries the location get_location
\* returned for that element, and None when get_location raised for it.
C5_LocationOfSameElement ==
  ~raise_on_error =>
    \A k \in 1..Len(errors) :
      k <= Len(FailedOutcomes) => errors[k].location = FailedOutcomes[k].loc

\* C10: the client handle is resolved once in the whole run and every
\* geocode and page request of every location goes to that one handle.
C10_SingleHandle ==
  /\ nclients <= 1
  /\ Cardinality(handles) <= 1

\* C10 as amended: a handle is resolved once per call of search_maps (once
\* per location that reaches its search), before any request of that
\* search, and it is a newly constructed Client; the geocode request and
\* every page request of that one search go to that handle.
C10_HandlePerSearch ==
  /\ spc \in {"idle", "ensure_client"} => log = <<>> /\ gmaps_client = NoClient
  /\ nclients = IF spc = "ensure_client" THEN Len(progress) - 1 ELSE Len(progress)
  /\ spc \notin {"idle", "ensure_client"} =>
       /\ gmaps_client = nclients
       /\ gmaps_client \notin {NoClient, CallerClient}
  /\ \A j \in 1..Len(log) : ~IsSleep(log[j]) => log[j].client = gmaps_client
  /\ handles \subseteq 1..nclients

C10_Witness ==
  /\ Len(progress) = 2
  /\ gmaps_client = 2
  /\ handles = {1, 2}
  /\ Len(Geocodes) = 1
  /\ Len(Requests) = 2

\* C11: every element processed without error has exactly one sink write,
\* made with the key get_key gives for its source (the location returned by
\* get_location when get_key was not passed, never the index) and with the
\* list its search returned, which is the served records capped at the
\* default n_results.
C11_OneWritePerElement ==
  /\ Len(writes) = Len(OkOutcomes)
  /\ \A k \in 1..Len(writes) :
       LET w == writes[k]
           o == OkOutcomes[k]
       IN /\ w.src = o.pos
          /\ \A j \in 1..Len(writes) : writes[j].src = w.src => j = k
          /\ o.loc \in {LocationOf(o.pos, kind) : kind \in LocKinds}
          /\ w.key = IF get_key_given THEN KeyOf(o.pos) ELSE o.loc
          /\ w.value = o.ret
          /\ Len(w.value) <= DFLT_N_RESULTS
          /\ w.value = [j \in 1..Len(w.value) |-> j]
  /\ (bpc = "search" /\ spc = "returned") =>
       results = Take(Flatten(pages), DFLT_N_RESULTS)

C11_Witness ==
  /\ bpc = "returned"
  /\ ~get_key_given
  /\ Len(writes) = 2
  /\ writes[1].key = LocationOf(0, "str")
  /\ Len(writes[1].value) = DFLT_N_RESULTS
  /\ writes[2].key = LocationOf(1, "tuple")
  /\ Len(writes[2].value) = 5

\* C12: the cursor is forward-only: its first request carries no token,
\* its k-th request (k > 1) carries the token of the (k-1)-th response, no
\* token is sent in two requests, only the last response can be without a
\* token, and the cursor has ended exactly when the page of a response
\* without a token was yielded and it was asked for more.
C12_ForwardOnly ==
  /\ Requests # <<>> => Requests[1].page_token = NoToken
  /\ \A k \in 2..Len(Requests) :
       /\ k - 1 <= Len(tokens)
       /\ Requests[k].page_token = tokens[k - 1]
       /\ Requests[k].page_token # NoToken
       /\ \A j \in 1..(k - 1) : Requests[j].page_token # Requests[k].page_token
  /\ Len(tokens) = Len(pages)
  /\ Len(tokens) <= Len(Requests)
  /\ \A r \in 1..(Len(tokens) - 1) : tokens[r] # NoToken
  /\ gpc = "finished" =>
       /\ tokens # <<>>
       /\ tokens[Len(tokens)] = NoToken
       /\ Len(Requests) = Len(tokens)
  /\ (tokens # <<>> /\ tokens[Len(tokens)] = NoToken) => Len(Requests) = Len(tokens)

C12_Witness ==
  /\ gpc = "finished"
  /\ Len(Requests) = 3
  /\ Requests[2].page_token = tokens[1]
  /\ Requests[3].page_token = tokens[2]
  /\ tokens[3] = NoToken

\* an element has been yielded by the input and is not yet fully handled
Processing == bpc \in {"get_location", "get_key", "search", "except"}

Max(a, b) == IF a >= b THEN a ELSE b

\* what holds of the consumption of the input whatever the slice bounds are
C13_Consumption ==
  /\ cnt <= Len(locations)
  /\ Processing =>
       /\ location_src = locations[cnt]
       /\ location_src = cnt - 1
       /\ location_src >= start_index
       /\ i = cnt - 1 - start_index
       /\ Len(outcome) = i
  /\ bpc = "pull" => Len(outcome) = i + 1
  /\ \A k \in 1..Len(outcome) : outcome[k].pos = start_index + k - 1
  /\ \A k \in 1..Len(writes) : writes[k].src >= start_index
  /\ Len(progress) <= Len(outcome) + 1
  /\ Len(writes) + Len(errors) <= Len(outcome)

\* the input only moves forward, and only between two elements
C13_PullStep ==
  cnt' # cnt =>
    /\ bpc = "pull"
    /\ cnt' > cnt
    /\ Len(outcome) = i + 1
    /\ \A k \in 1..Len(outcome) :
         \/ outcome[k].stage = "ok" /\ \E j \in 1..Len(writes) : writes[j].src = outcome[k].pos
         \/ outcome[k].stage # "ok" /\ \E j \in 1..Len(errors) : errors[j].i = outcome[k].i

\* C13: the input is consumed lazily and in order: every source is pulled
\* at most once, a source is pulled only when the element before it is
\* persisted or recorded as an error, the sources before start_index are
\* pulled but never get a get_location call, a search or a sink write, and
\* with stop_index = t no more than t sources are ever pulled.
C13_PullsAtMostStop ==
  /\ C13_Consumption
  /\ stop_index # NoStop => cnt <= stop_index

\* C13 as amended: the same, except that with stop_index = t no more than
\* max(t, start_index) sources are ever pulled: no more than t when
\* start_index <= t, and the start_index skipped ones when start_index > t.
C13_LazyInOrder ==
  /\ [](/\ C13_Consumption
        /\ stop_index # NoStop => cnt <= Max(stop_index, start_index)
        /\ (stop_index # NoStop /\ start_index <= stop_index) => cnt <= stop_index)
  /\ [][C13_PullStep]_vars

C13_Witness ==
  /\ bpc = "returned"
  /\ Len(locations) = 2
  /\ start_index = 1
  /\ stop_index = 2
  /\ cnt = 2
  /\ Len(outcome) = 1
  /\ outcome[1].pos = 1

\* the element's search failed on a page request
PageRequestFailed(o) == o.stage = "search" /\ o.e = "RemoteRequestFailure"

\* a page request has just raised
C14_RequestRaises ==
  /\ Len(log') = Len(log) + 1
  /\ log'[Len(log')].op = "places"
  /\ ~log'[Len(log')].ok

C14_Propagates ==
  /\ C14_RequestRaises =>
       /\ ~IsliceDone
       /\ spc' = "raised"
       /\ exc' = "RemoteRequestFailure"
       /\ writes' = writes
  /\ spc = "raised" =>
       /\ spc' \in {"raised", "idle"}
       /\ writes' = writes
       /\ exc' = exc
       /\ spc' = "idle" => (bpc' = "except" /\ failed_at' = "search")

C14_Recorded ==
  \A k \in 1..Len(outcome) :
    PageRequestFailed(outcome[k]) =>
      /\ outcome[k].ret = <<>>
      /\ \A j \in 1..Len(writes) : writes[j].src # outcome[k].pos
      /\ raise_on_error => (k = Len(outcome) /\ bpc = "raised" /\ errors = <<>>)
      /\ ~raise_on_error =>
           /\ Cardinality({j \in 1..Len(errors) : errors[j].i = outcome[k].i}) = 1
           /\ \A j \in 1..Len(errors) :
                errors[j].i = outcome[k].i => errors[j].e = "RemoteRequestFailure"
           /\ bpc # "raised"
           /\ (bpc = "returned" /\ outcome[k].pos + 1 < SliceEnd) =>
                (k < Len(outcome) /\ outcome[k + 1].pos = outcome[k].pos + 1)

\* C14: a page request the capped search needs and that raises makes
\* search_maps raise that exception, with no partial list returned: the
\* batch makes no sink write for that location although earlier pages were
\* fetched, and with raise_on_error false there is exactly one ErrorRecord
\* for the location and the next location is processed.
C14_PageFailureAbortsLocation ==
  /\ []C14_Recorded
  /\ [][C14_Propagates]_vars

C14_Witness ==
  /\ bpc = "returned"
  /\ ~raise_on_error
  /\ Len(outcome) = 2
  /\ PageRequestFailed(outcome[1])
  /\ outcome[1].fetched >= 1
  /\ outcome[2].stage = "ok"
  /\ Len(errors) = 1
  /\ Len(writes) = 1
  /\ writes[1].src = outcome[2].pos

\* the records held by the first p pages fetched
RecordsIn(p) == Len(Flatten(SubSeq(pages, 1, p)))

\* the numbers of pages that are enough to fill the cap
Enough == {p \in 0..Len(pages) : RecordsIn(p) >= n_results}

\* C15: search_maps issues the minimum number of page requests: as many as
\* the smallest p >= 0 such that the first p pages hold at least n_results
\* records, or as many as there are pages when there is no such p; a cap
\* reached on the last record of a page that carries a token is followed by
\* no request and no sleep, and with n_results = 0 no request is issued.
C15_MinimumRequests ==
  /\ \A p \in 1..Len(Requests) : RecordsIn(p - 1) < n_results
  /\ Len(Sleeps) = Max(Len(Requests) - 1, 0) + (IF gpc = "slept" THEN 1 ELSE 0)
  /\ n_results = 0 => (Requests = <<>> /\ Sleeps = <<>>)
  /\ (spc = "islice" /\ IsliceDone /\ buf = <<>> /\ next_page_token # NoToken) =>
       (gpc = "yielded" /\ ~ENABLED Sleep /\ ~ENABLED NextRequest /\ ENABLED ReturnCapped)
  /\ spc = "returned" =>
       /\ Len(Requests) = Len(pages)
       /\ nreq = Len(pages)
       /\ Enough # {} => (nreq \in Enough /\ \A q \in Enough : nreq <= q)
       /\ Enough = {} => RemoteExhausted
       /\ IsliceDone => CursorLog = <<>> \/ CursorLog[Len(CursorLog)].op = "places"

C15_Witness ==
  /\ spc = "returned"
  /\ n_results = 2
  /\ Len(pages) = 2
  /\ Len(pages[1]) = 1
  /\ Len(pages[2]) = 1
  /\ buf = <<>>
  /\ next_page_token # NoToken
  /\ nreq = 2
  /\ Len(Sleeps) = 1

\* the search has what lets it end: the cap is reached or the last
\* response carried no token
CanEnd == IsliceDone \/ RemoteExhausted

\* the cursor is between two pages with a token pending and the cap not reached
Looping ==
  /\ spc = "islice"
  /\ n_results >= 1
  /\ ~IsliceDone
  /\ buf = <<>>
  /\ gpc \in {"yielded", "slept"}
  /\ next_page_token # NoToken

\* the last response was an empty page that carries a token
EmptyPageWithToken ==
  /\ gpc = "yielded"
  /\ pages # <<>>
  /\ pages[Len(pages)] = <<>>
  /\ next_page_token # NoToken

C16_State ==
  /\ spc = "returned" => CanEnd
  /\ (spc = "islice" /\ CanEnd) =>
       /\ IsliceDone => ENABLED ReturnCapped
       /\ (~IsliceDone /\ buf = <<>>) => ENABLED ReturnExhausted
       /\ (~IsliceDone /\ buf # <<>>) => ENABLED TakeRecords
  /\ Looping =>
       /\ ~ENABLED ReturnCapped
       /\ ~ENABLED ReturnExhausted
       /\ ~ENABLED TakeRecords
       /\ gpc = "yielded" => ENABLED Sleep
       /\ (gpc = "slept" /\ nreq < MaxRequests) => ENABLED NextRequest
  /\ (spc = "islice" /\ ~IsliceDone /\ EmptyPageWithToken) => Looping
  /\ (bpc = "search" /\ spc \notin {"returned", "raised"}) =>
       (~ENABLED SaveResult /\ ~ENABLED SearchRaised /\ ~ENABLED PullSource)

C16_Step ==
  \* once it can end, every step brings the search nearer to its return
  /\ (spc = "islice" /\ CanEnd) =>
       \/ spc' = "returned"
       \/ spc' = "islice" /\ CanEnd' /\ Len(buf') < Len(buf) /\ nreq' = nreq
  \* the loop is left only through a request answered otherwise than by
  \* an empty page with a token
  /\ Looping =>
       \/ Looping' /\ spc' = "islice"
       \/ /\ gpc = "slept"
          /\ nreq' = nreq + 1
          /\ spc' = "raised" \/ buf' # <<>> \/ next_page_token' = NoToken
  /\ (Looping /\ gpc = "slept" /\ EmptyPageWithToken') => Looping'
  \* the batch waits for the search
  /\ (bpc = "search" /\ spc \notin {"returned", "raised"}) =>
       /\ bpc' = "search"
       /\ cnt' = cnt
       /\ i' = i
       /\ writes' = writes
       /\ errors' = errors
       /\ outcome' = outcome

\* C16: search_maps with n_results >= 1 terminates if and only if the remote
\* eventually answers without a token or the pages fetched reach n_results
\* records: against a remote that keeps answering with empty pages that
\* each carry a token, the search keeps sleeping and fetching and never
\* returns, and the batch never advances to the next location.
C16_ReturnsIffCanEnd ==
  /\ []C16_State
  /\ [][C16_Step]_vars

C16_Witness ==
  /\ bpc = "search"
  /\ Len(locations) = 2
  /\ cnt = 1
  /\ outcome = <<>>
  /\ Looping
  /\ gpc = "slept"
  /\ nreq >= 2
  /\ Len(pages) = nreq
  /\ \A p \in 1..Len(pages) : pages[p] = <<>>
  /\ Len(Sleeps) = nreq
  /\ results = <<>>

====
